---- MODULE Spec2Model ----
(***************************************************************************)
(* Watts Vision+ integration: the polling coordinator, the API client's    *)
(* bulk fetch, the entity write commands and the config entry's setup and  *)
(* unload, as state machines.                                              *)
(*                                                                         *)
(* Two revisions of the coordinator live in the repository:                *)
(*   stack = "api"    config/custom_components/watts: WattsVisionAPI,      *)
(*                    a coordinator whose _async_update_data returns the   *)
(*                    bulk fetch, climate and switch entities that request *)
(*                    a refresh after a command;                           *)
(*   stack = "client" homeassistant/components/watts (coordinator with     *)
(*                    _devices, _is_initialized, async_refresh_device) and *)
(*                    custom_components/watts (entity, switch).            *)
(* Every await on the vendor API is a suspension point: a request is sent  *)
(* in one step (the vendor's answer is fixed then) and its response is     *)
(* handled in a later step, so other tasks interleave in between.          *)
(***************************************************************************)
EXTENDS Integers, Sequences, FiniteSets, TLC

\* ------------------------------------------------------------ bounds
MaxCommands == 2

\* --------------------------------------------------------- constants
INTERFACE_THERMOSTAT == "action.devices.types.THERMOSTAT"
INTERFACE_SWITCH == "action.devices.types.SWITCH"
BAD_REQUEST == 400
INTERNAL_SERVER_ERROR == 500

Devices == {"T1", "S1"}
DeviceOrder == <<"T1", "S1">>
Temps == {20, 23}
Stacks == {"api", "client"}
Slots == {"timer", "request"}

EmptyMap == [d \in {} |-> TRUE]
NoCmd == {}

VARIABLES
  stack,                \* which revision of coordinator and entities runs
  account,              \* vendor: the device ids of the account
  srv,                  \* vendor: the current report of each device
  data,                 \* coordinator.data, the snapshot entities read
  has_data,             \* FALSE while coordinator.data is None
  last_update_success,  \* coordinator.last_update_success
  devices,              \* coordinator._devices        (client stack)
  is_initialized,       \* coordinator._is_initialized (client stack)
  slot,                 \* the refresh cycles in flight, timer and requested
  dref,                 \* async_refresh_device in flight
  cmd,                  \* the entity write command in flight
  cmdCount,             \* commands started so far
  last,                 \* the operation that completed last, and how
  entry,                \* the config entry: setup, runtime data, unload
  view,                 \* what an entity's read properties returned last
  entities,             \* the entities each platform registered
  auth,                 \* the OAuth session's token and the API requests
  flow,                 \* the config flows and the entries they created
  registry              \* hass.data's coordinator key and the platform setups

coordVars == <<data, has_data, last_update_success, devices, is_initialized>>
vendorVars == <<account, srv>>
taskVars == <<slot, dref, cmd, cmdCount>>
hostVars == <<view, entities, auth, flow, registry>>
vars == <<stack, account, srv, data, has_data, last_update_success, devices,
          is_initialized, slot, dref, cmd, cmdCount, last, entry,
          view, entities, auth, flow, registry>>

\* ----------------------------------------------------------- vendor
Interface(d) == IF d = "T1" THEN INTERFACE_THERMOSTAT ELSE INTERFACE_SWITCH

\* One entry of the discovery response.
Summary(d) ==
  [deviceId |-> d, interface |-> Interface(d), friendlyName |-> d,
   roomName |-> "Hall"]

InitialReport(d) ==
  IF Interface(d) = INTERFACE_THERMOSTAT
  THEN [setpoint |-> 20, thermostatMode |-> "Comfort", isOnline |-> TRUE]
  ELSE [isTurnedOn |-> TRUE, isOnline |-> TRUE]

Order(S) == SelectSeq(DeviceOrder, LAMBDA d : d \in S)

\* {**device, **report}: the keys of both, the report's value where both have one.
Merge(device, report) ==
  [f \in (DOMAIN device) \cup (DOMAIN report) |->
     IF f \in DOMAIN report THEN report[f] ELSE device[f]]

\* The library's Device object of the client stack: identity and state.
DeviceObj(d) == Merge(Summary(d), srv[d])

\* ------------------------------------------------------------ events
Ev(op, outcome, who, err) ==
  [op |-> op, outcome |-> outcome, who |-> who, err |-> err,
   requests |-> 0, input |-> "none", cmd |-> NoCmd, intervened |-> FALSE,
   fetched |-> EmptyMap, stale |-> FALSE, dropped |-> {}]

NoEv == Ev("none", "none", "none", "none")

IdleSlot ==
  [pc |-> "idle", todo |-> <<>>, acc |-> EmptyMap, resp |-> EmptyMap,
   cmd |-> NoCmd, intervened |-> FALSE]

IdleDref ==
  [pc |-> "idle", dev |-> "none", resp |-> {}, after |-> FALSE,
   overtaken |-> {}]
IdleCmd ==
  [pc |-> "idle", op |-> "none", dev |-> "none", arg |-> EmptyMap,
   input |-> "none"]

NoView == [kind |-> "none"]
NoEntities ==
  [platform \in {"climate", "switch"} |->
     [done |-> FALSE, add_calls |-> 0, created |-> <<>>]]
AuthNone == [pc |-> "none"]
FlowNone == [pc |-> "none"]
NoRegistry == [pc |-> "none"]
NoError == [kind |-> "none", status |-> 0]

EntryNone ==
  [setup_pc |-> "idle", setup_result |-> "none", failed_stage |-> "none",
   token_err |-> NoError, runtime_data |-> {}, forwarded |-> {},
   calls |-> <<>>, resp |-> EmptyMap,
   unload_pc |-> "idle", unload_result |-> "none", platform_result |-> "none",
   raised |-> {}]

\* ------------------------------------------- DataUpdateCoordinator
\* The host's refresh wrapper around _async_update_data: a returned mapping
\* becomes coordinator.data and the cycle counts as a success.
RefreshSucceeded(result) ==
  /\ data' = result
  /\ has_data' = TRUE
  /\ last_update_success' = TRUE

\* UpdateFailed reaches the host: the snapshot is kept, the cycle is flagged.
\* Mutant: a failed refresh drops the snapshot.
RefreshFailed_cleared ==
  /\ last_update_success' = FALSE
  /\ data' = EmptyMap
  /\ has_data' = has_data

RefreshFailed ==
  /\ last_update_success' = FALSE
  /\ UNCHANGED <<data, has_data>>

\* Mutant: publishing leaves the success flag as it was.
SetUpdatedData_keepflag(mapping) ==
  /\ data' = mapping
  /\ has_data' = TRUE
  /\ last_update_success' = last_update_success

\* async_set_updated_data(mapping): publish without a fetch.
SetUpdatedData(mapping) ==
  /\ data' = mapping
  /\ has_data' = TRUE
  /\ last_update_success' = TRUE

\* Mutant: the mapping is replaced by one holding the written key alone.
Put_alone(m, k, v) == [x \in {k} |-> v]

Put(m, k, v) == [x \in (DOMAIN m) \cup {k} |-> IF x = k THEN v ELSE m[x]]

PollOk(s, fetched) ==
  [Ev("poll", "ok", s, "none") EXCEPT
     !.cmd = slot[s].cmd, !.intervened = slot[s].intervened,
     !.fetched = fetched, !.stale = ~last_update_success]

\* What _async_update_data can meet at an await: a transport error, the
\* expiry of a timeout, a malformed answer.
PollErrors == {"ClientError", "TimeoutError", "KeyError"}

\* api stack: except Exception as err: raise UpdateFailed(...) from err
ApiUpdateDataRaises(err) == "UpdateFailed"

\* async_config_entry_first_refresh:
\* except Exception as err: raise UpdateFailed(...) from err
FirstRefreshRaises(err) == "UpdateFailed"

\* Mutant: the handler names the transport error only.
UpdateDataRaises_narrow(err) ==
  IF err \in {"UpdateFailed", "ClientError"} THEN "UpdateFailed" ELSE err

\* client stack: except Exception as err: an UpdateFailed is raised again as
\* it is, anything else leaves as UpdateFailed.
UpdateDataRaises(err) == IF err = "UpdateFailed" THEN err ELSE "UpdateFailed"

\* The error that leaves _async_update_data for an error err met inside it.
PollFail(s, err) ==
  [Ev("poll", "fail", s,
      IF stack = "api" THEN ApiUpdateDataRaises(err) ELSE UpdateDataRaises(err))
   EXCEPT
     !.cmd = slot[s].cmd, !.intervened = slot[s].intervened,
     !.stale = ~last_update_success, !.dropped = DOMAIN slot[s].acc]

\* ------------------------------------------------ api stack: bulk fetch
\* Mutant: the report is fetched and not merged into the record.
DevicesData_noreport(acc, id, device, report) == Put(acc, id, device)

\* devices_data[device_id] = {**device, **report}
DevicesData(acc, id, device, report) == Put(acc, id, Merge(device, report))

\* async_get_all_devices_data starts: the discovery request is sent.
ApiSendDiscover(tag, iv) ==
  [pc |-> "discover", todo |-> <<>>, acc |-> EmptyMap,
   resp |-> [d \in account |-> Summary(d)], cmd |-> tag, intervened |-> iv]

ApiSendReport(s, todo, acc) ==
  [slot[s] EXCEPT !.pc = "report", !.todo = todo, !.acc = acc,
     !.resp = [d \in {Head(todo)} |-> srv[d]]]

\* The update interval elapsed: the host starts a refresh cycle.
ApiTimerStart ==
  /\ stack = "api"
  /\ slot["timer"].pc = "idle"
  /\ slot' = [slot EXCEPT !["timer"] = ApiSendDiscover(NoCmd, FALSE)]
  /\ UNCHANGED <<stack, hostVars, vendorVars, coordVars, dref, cmd, cmdCount, last, entry>>

\* Mutant: the fetch writes each report into the snapshot as it arrives, so a
\* failing cycle leaves the reports fetched before the failure behind.
ApiCycleFailed_partial(s) ==
  /\ data' = [id \in (DOMAIN data) \cup (DOMAIN slot[s].acc) |->
                IF id \in DOMAIN slot[s].acc THEN slot[s].acc[id] ELSE data[id]]
  /\ has_data' = has_data
  /\ last_update_success' = FALSE
  /\ slot' = [slot EXCEPT ![s] = IdleSlot]
  /\ \E err \in PollErrors : last' = PollFail(s, err)

\* Mutant: a failing report is skipped and the fetch goes on with the next
\* device, returning the mapping of the reports that were answered.
ApiCycleFailed_isolated(s) ==
  IF slot[s].pc = "report"
  THEN IF Tail(slot[s].todo) = <<>>
       THEN /\ RefreshSucceeded(slot[s].acc)
            /\ slot' = [slot EXCEPT ![s] = IdleSlot]
            /\ last' = PollOk(s, slot[s].acc)
       ELSE /\ slot' = [slot EXCEPT ![s] =
                         [slot[s] EXCEPT !.todo = Tail(@),
                            !.resp = [d \in {Head(Tail(slot[s].todo))} |-> srv[d]]]]
            /\ UNCHANGED <<data, has_data, last_update_success, last>>
  ELSE /\ RefreshFailed
       /\ slot' = [slot EXCEPT ![s] = IdleSlot]
       /\ \E err \in PollErrors : last' = PollFail(s, err)

\* A request of the cycle raised: devices_data is local to the call and is
\* dropped, _async_update_data raises UpdateFailed, the host keeps the snapshot.
ApiCycleFailed(s) ==
  /\ RefreshFailed
  /\ slot' = [slot EXCEPT ![s] = IdleSlot]
  /\ \E err \in PollErrors : last' = PollFail(s, err)

ApiCycleDone(s, devices_data) ==
  /\ RefreshSucceeded(devices_data)
  /\ slot' = [slot EXCEPT ![s] = IdleSlot]
  /\ last' = PollOk(s, devices_data)

\* The discovery response arrives.
ApiDiscoverDone(s) ==
  /\ stack = "api"
  /\ slot[s].pc = "discover"
  /\ \/ LET found == Order(DOMAIN slot[s].resp)
        IN IF found = <<>>
           THEN ApiCycleDone(s, EmptyMap)
           ELSE /\ slot' = [slot EXCEPT ![s] = ApiSendReport(s, found, EmptyMap)]
                /\ UNCHANGED <<data, has_data, last_update_success, last>>
     \/ ApiCycleFailed(s)
  /\ UNCHANGED <<stack, hostVars, vendorVars, devices, is_initialized, dref, cmd,
                 cmdCount, entry>>

\* One device's report arrives.
ApiReportDone(s) ==
  /\ stack = "api"
  /\ slot[s].pc = "report"
  /\ \/ LET id == Head(slot[s].todo)
            acc == DevicesData(slot[s].acc, id, Summary(id), slot[s].resp[id])
            rest == Tail(slot[s].todo)
        IN IF rest = <<>>
           THEN ApiCycleDone(s, acc)
           ELSE /\ slot' = [slot EXCEPT ![s] = ApiSendReport(s, rest, acc)]
                /\ UNCHANGED <<data, has_data, last_update_success, last>>
     \/ ApiCycleFailed(s)
  /\ UNCHANGED <<stack, hostVars, vendorVars, devices, is_initialized, dref, cmd,
                 cmdCount, entry>>

\* ------------------------------------------ client stack: coordinator
\* async_config_entry_first_refresh, discovery answered: the device map is
\* rebuilt from the list, the coordinator is initialized, the map published.
FirstRefreshOk(found) ==
  /\ devices' = found
  /\ is_initialized' = TRUE
  /\ SetUpdatedData(found)

\* Mutant: the initialized flag is set before the discovery is awaited.
FirstRefreshRaised_flagged ==
  /\ is_initialized' = TRUE
  /\ UNCHANGED <<devices, data, has_data>>

\* async_config_entry_first_refresh, discovery raised: nothing was assigned
\* yet, UpdateFailed goes to the caller.
FirstRefreshRaised ==
  /\ UNCHANGED <<devices, is_initialized, data, has_data>>

\* Mutant: the device map is replaced by the response.
BulkMerge_only(known, updated) == updated

\* Mutant: the poll drops the response.
BulkMerge_keep(known, updated) == known

\* for device_id, device in updated_devices.items(): _devices[device_id] = device
BulkMerge(known, updated) ==
  [id \in (DOMAIN known) \cup (DOMAIN updated) |->
     IF id \in DOMAIN updated THEN updated[id] ELSE known[id]]

\* The update interval elapsed: _async_update_data runs up to its first await.
ClientTimerStart ==
  /\ stack = "client"
  /\ slot["timer"].pc = "idle"
  /\ \/ /\ ~is_initialized
        /\ slot' = [slot EXCEPT !["timer"] =
                      [IdleSlot EXCEPT !.pc = "first",
                         !.resp = [d \in account |-> DeviceObj(d)]]]
        /\ UNCHANGED <<coordVars, last>>
     \/ /\ is_initialized
        /\ DOMAIN devices = {}
        /\ RefreshSucceeded(devices)
        /\ last' = PollOk("timer", EmptyMap)
        /\ UNCHANGED <<devices, is_initialized, slot>>
     \/ /\ is_initialized
        /\ DOMAIN devices # {}
        /\ \E ids \in SUBSET ((DOMAIN devices) \cap account) :
             slot' = [slot EXCEPT !["timer"] =
                        [IdleSlot EXCEPT !.pc = "bulk",
                           !.todo = Order(DOMAIN devices),
                           !.resp = [d \in ids |-> DeviceObj(d)]]]
        /\ UNCHANGED <<coordVars, last>>
  /\ UNCHANGED <<stack, hostVars, vendorVars, dref, cmd, cmdCount, entry>>

\* The discovery of an uninitialized coordinator's poll is answered.
ClientFirstDone ==
  /\ stack = "client"
  /\ slot["timer"].pc = "first"
  /\ \/ /\ FirstRefreshOk(slot["timer"].resp)
        /\ last' = PollOk("timer", slot["timer"].resp)
     \/ /\ FirstRefreshRaised
        /\ last_update_success' = FALSE
        /\ \E err \in PollErrors :
             last' = PollFail("timer", FirstRefreshRaises(err))
  /\ slot' = [slot EXCEPT !["timer"] = IdleSlot]
  /\ UNCHANGED <<stack, hostVars, vendorVars, dref, cmd, cmdCount, entry>>

\* get_devices_report is answered; the request is no longer in flight for
\* the device refreshes.
ClientBulkDone ==
  /\ stack = "client"
  /\ slot["timer"].pc = "bulk"
  /\ \/ /\ devices' = BulkMerge(devices, slot["timer"].resp)
        /\ RefreshSucceeded(devices')
        /\ last' = PollOk("timer", slot["timer"].resp)
     \/ /\ RefreshFailed
        /\ devices' = devices
        /\ \E err \in PollErrors : last' = PollFail("timer", err)
  /\ slot' = [slot EXCEPT !["timer"] = IdleSlot]
  /\ dref' = [dref EXCEPT !.after = FALSE, !.overtaken = {}]
  /\ UNCHANGED <<stack, hostVars, vendorVars, is_initialized, cmd, cmdCount, entry>>

\* The first refresh as setup calls it, outside the host's refresh wrapper.
SetupFirstRefreshStart ==
  /\ stack = "client"
  /\ ~is_initialized
  /\ slot["timer"].pc = "idle"
  /\ slot' = [slot EXCEPT !["timer"] =
                [IdleSlot EXCEPT !.pc = "setup",
                   !.resp = [d \in account |-> DeviceObj(d)]]]
  /\ UNCHANGED <<stack, hostVars, vendorVars, coordVars, dref, cmd, cmdCount, last, entry>>

SetupFirstRefreshDone ==
  /\ stack = "client"
  /\ slot["timer"].pc = "setup"
  /\ \/ /\ FirstRefreshOk(slot["timer"].resp)
        /\ last' = [Ev("first_refresh", "ok", "setup", "none") EXCEPT
                      !.fetched = slot["timer"].resp]
     \/ /\ FirstRefreshRaised
        /\ last_update_success' = last_update_success
        /\ last' = Ev("first_refresh", "fail", "setup", "UpdateFailed")
  /\ slot' = [slot EXCEPT !["timer"] = IdleSlot]
  /\ UNCHANGED <<stack, hostVars, vendorVars, dref, cmd, cmdCount, entry>>

\* except (RuntimeError, ValueError, TypeError)
RefreshDeviceCatches == {"RuntimeError", "ValueError", "TypeError"}
DeviceFetchErrors == RefreshDeviceCatches \cup {"ClientError"}

\* Mutant: a failed device fetch is handled like a failed poll.
RefreshDeviceRaised_flagged ==
  /\ last_update_success' = FALSE
  /\ UNCHANGED <<data, has_data, devices, is_initialized>>

\* async_refresh_device, get_device raised: whether the error is logged here
\* or leaves the call, nothing of the coordinator was assigned.
RefreshDeviceRaised == UNCHANGED coordVars

\* async_refresh_device(device_id) up to its await; dref.after tells that
\* get_devices_report of a poll was sent before and is not answered yet,
\* dref.overtaken holds the ids that device refreshes sent after that request
\* have written.
RefreshDeviceStart(d) ==
  /\ stack = "client"
  /\ dref.pc = "idle"
  /\ dref' = [pc |-> "wait", dev |-> d,
              resp |-> IF d \in account THEN {DeviceObj(d)} ELSE {},
              after |-> slot["timer"].pc = "bulk",
              overtaken |-> dref.overtaken]
  /\ UNCHANGED <<stack, hostVars, vendorVars, coordVars, slot, cmd, cmdCount, last, entry>>

\* get_device is answered: a device, None, or an error.
RefreshDeviceDone ==
  /\ stack = "client"
  /\ dref.pc = "wait"
  /\ \/ /\ dref.resp # {}
        /\ LET device == CHOOSE x \in dref.resp : TRUE
           IN /\ devices' = Put(devices, dref.dev, device)
              /\ SetUpdatedData(devices')
              /\ last' = [Ev("refresh_device", "ok", dref.dev, "none") EXCEPT
                            !.fetched = [d \in {dref.dev} |-> device],
                            !.stale = ~last_update_success]
        /\ dref' = [IdleDref EXCEPT !.overtaken =
                      IF dref.after THEN dref.overtaken \cup {dref.dev}
                                    ELSE dref.overtaken]
        /\ UNCHANGED is_initialized
     \/ /\ dref.resp = {}
        /\ UNCHANGED coordVars
        /\ dref' = [IdleDref EXCEPT !.overtaken = dref.overtaken]
        /\ last' = Ev("refresh_device", "no_device", dref.dev, "none")
     \/ \E e \in DeviceFetchErrors :
          /\ RefreshDeviceRaised
          /\ dref' = [IdleDref EXCEPT !.overtaken = dref.overtaken]
          /\ last' = Ev("refresh_device",
                        IF e \in RefreshDeviceCatches THEN "caught" ELSE "raised",
                        dref.dev, e)
  /\ UNCHANGED <<stack, hostVars, vendorVars, slot, cmd, cmdCount, entry>>

\* ------------------------------------------------------ entity commands
HvacModes == {"heat", "off", "auto", "cool"}

\* Mutant: Heat is sent as the vendor's mode 3 (Eco).
HvacToModeNumber_eco == [heat |-> 3, off |-> 2, auto |-> 6]

\* hvac_to_mode_number of async_set_hvac_mode
HvacToModeNumber == [heat |-> 1, off |-> 2, auto |-> 6]

\* The vendor's thermostat modes by number, as const.py names them.
ModeName(n) ==
  CASE n = 1 -> "Comfort"
    [] n = 2 -> "Off"
    [] n = 3 -> "Eco"
    [] n = 4 -> "Defrost"
    [] n = 5 -> "Timer"
    [] OTHER -> "Program"

\* What the vendor does with an accepted command body.
VendorApply(report, payload) ==
  IF "targetTemperature" \in DOMAIN payload
  THEN [report EXCEPT !.setpoint = payload.targetTemperature]
  ELSE IF "mode" \in DOMAIN payload
  THEN [report EXCEPT !.thermostatMode = ModeName(payload.mode)]
  ELSE [report EXCEPT !.isTurnedOn = payload.isTurnedOn]

\* The snapshot field and value a command's body stands for.
Expect(d, payload) ==
  IF "targetTemperature" \in DOMAIN payload
  THEN [dev |-> d, key |-> "setpoint", val |-> payload.targetTemperature]
  ELSE IF "mode" \in DOMAIN payload
  THEN [dev |-> d, key |-> "thermostatMode", val |-> ModeName(payload.mode)]
  ELSE [dev |-> d, key |-> "isTurnedOn", val |-> payload.isTurnedOn]

HasEntity(d, interface) ==
  /\ has_data
  /\ d \in DOMAIN data
  /\ data[d].interface = interface

CommandErrors == {"RuntimeError", "ClientError"}

\* What the entity's handler catches: except Exception in the api stack's
\* climate and switch, except RuntimeError in the client stack's switch.
CommandCatches(e) == IF stack = "api" THEN TRUE ELSE e = "RuntimeError"

CmdSend(op, d, payload) ==
  /\ cmd' = [pc |-> "sent", op |-> op, dev |-> d, arg |-> payload,
             input |-> "none"]
  /\ last' = last

CmdReturnEarly(op, d) ==
  /\ cmd' = cmd
  /\ last' = Ev(op, "not_sent", d, "none")

\* WattsVisionClimate.async_set_temperature(**kwargs) up to its await.
SetTemperatureStart(d, kwargs) ==
  /\ stack = "api"
  /\ HasEntity(d, INTERFACE_THERMOSTAT)
  /\ cmd.pc = "idle"
  /\ cmdCount < MaxCommands
  /\ cmdCount' = cmdCount + 1
  /\ IF "temperature" \notin DOMAIN kwargs
     THEN CmdReturnEarly("set_temperature", d)
     ELSE CmdSend("set_temperature", d, [targetTemperature |-> kwargs.temperature])
  /\ UNCHANGED <<stack, hostVars, vendorVars, coordVars, slot, dref, entry>>

\* WattsVisionClimate.async_set_hvac_mode(hvac_mode) up to its await.
SetHvacModeStart(d, hvac_mode) ==
  /\ stack = "api"
  /\ HasEntity(d, INTERFACE_THERMOSTAT)
  /\ cmd.pc = "idle"
  /\ cmdCount < MaxCommands
  /\ cmdCount' = cmdCount + 1
  /\ IF hvac_mode \notin DOMAIN HvacToModeNumber
     THEN /\ cmd' = cmd
          /\ last' = [Ev("set_hvac_mode", "not_sent", d, "none")
                        EXCEPT !.input = hvac_mode]
     ELSE /\ cmd' = [pc |-> "sent", op |-> "set_hvac_mode", dev |-> d,
                     arg |-> [mode |-> HvacToModeNumber[hvac_mode]],
                     input |-> hvac_mode]
          /\ last' = last
  /\ UNCHANGED <<stack, hostVars, vendorVars, coordVars, slot, dref, entry>>

\* WattsVisionSwitch.async_turn_on / async_turn_off up to the await.
TurnStart(d, on) ==
  /\ HasEntity(d, INTERFACE_SWITCH)
  /\ cmd.pc = "idle"
  /\ cmdCount < MaxCommands
  /\ cmdCount' = cmdCount + 1
  /\ CmdSend(IF on THEN "turn_on" ELSE "turn_off", d, [isTurnedOn |-> on])
  /\ UNCHANGED <<stack, hostVars, vendorVars, coordVars, slot, dref, entry>>

\* await self.coordinator.async_request_refresh(): a cycle starts in the
\* request slot; a request made while one runs is absorbed by it (that cycle
\* then no longer speaks for one command alone).
RequestRefresh(tag) ==
  IF slot["request"].pc = "idle"
  THEN [slot EXCEPT !["request"] = ApiSendDiscover({tag}, FALSE)]
  ELSE [slot EXCEPT !["request"].intervened =
          @ \/ (\E c \in slot["request"].cmd : c.dev = tag.dev)]

\* The vendor answered the command, or the request raised.
CmdDone ==
  /\ cmd.pc = "sent"
  /\ \/ /\ srv' = [srv EXCEPT ![cmd.dev] = VendorApply(@, cmd.arg)]
        /\ IF stack = "api"
           THEN /\ slot' = RequestRefresh(Expect(cmd.dev, cmd.arg))
                /\ last' = [Ev(cmd.op, "ok", cmd.dev, "none") EXCEPT !.requests = 1]
           ELSE /\ slot' = slot
                /\ last' = Ev(cmd.op, "ok", cmd.dev, "none")
     \/ \E e \in CommandErrors :
          /\ srv' = srv
          /\ slot' = [slot EXCEPT !["request"].intervened =
                        @ \/ (\E c \in slot["request"].cmd : c.dev = cmd.dev)]
          /\ last' = Ev(cmd.op, IF CommandCatches(e) THEN "caught" ELSE "raised",
                        cmd.dev, e)
  /\ cmd' = IdleCmd
  /\ UNCHANGED <<stack, hostVars, account, coordVars, dref, cmdCount, entry>>

\* ------------------------------------------------ the running coordinator
PollInit ==
  /\ stack \in Stacks
  /\ account \in SUBSET Devices
  /\ srv = [d \in account |-> InitialReport(d)]
  /\ data = EmptyMap
  /\ has_data = FALSE
  /\ last_update_success = TRUE
  /\ devices = EmptyMap
  /\ is_initialized = FALSE
  /\ slot = [s \in Slots |-> IdleSlot]
  /\ dref = IdleDref
  /\ cmd = IdleCmd
  /\ cmdCount = 0
  /\ last = NoEv
  /\ entry = EntryNone
  /\ view = NoView
  /\ entities = NoEntities
  /\ auth = AuthNone
  /\ flow = FlowNone
  /\ registry = NoRegistry

PollNext ==
  \/ ApiTimerStart
  \/ \E s \in Slots : ApiDiscoverDone(s)
  \/ \E s \in Slots : ApiReportDone(s)
  \/ ClientTimerStart
  \/ ClientFirstDone
  \/ ClientBulkDone
  \/ SetupFirstRefreshStart
  \/ SetupFirstRefreshDone
  \/ \E d \in Devices : RefreshDeviceStart(d)
  \/ RefreshDeviceDone
  \/ \E d \in Devices, kwargs \in {EmptyMap} \cup {[temperature |-> t] : t \in Temps} :
       SetTemperatureStart(d, kwargs)
  \/ \E d \in Devices, h \in HvacModes : SetHvacModeStart(d, h)
  \/ \E d \in Devices, on \in BOOLEAN : TurnStart(d, on)
  \/ CmdDone

SpecPoll == PollInit /\ [][PollNext]_vars

\* ------------------------------------------------------- config entry
PLATFORMS == {"climate", "switch"}
Statuses == {302, 400, 401, 499, 500, 503}

\* What async_ensure_token_valid can raise: an HTTP error response, another
\* aiohttp ClientError (connection failure, connection or socket timeout), or
\* an error that is no ClientError (the expiry of the session's total
\* timeout is a TimeoutError; a failed token refresh a RuntimeError).
TokenErrors ==
  {[kind |-> "ClientResponseError", status |-> st] : st \in Statuses}
    \cup {[kind |-> "ClientError", status |-> 0],
          [kind |-> "TimeoutError", status |-> 0],
          [kind |-> "RuntimeError", status |-> 0]}

\* The except clauses around async_ensure_token_valid: what setup raises for
\* an error of the token validation (an error no clause names leaves as it is).
SetupTokenError(err) ==
  IF err.kind = "ClientResponseError"
  THEN IF BAD_REQUEST <= err.status /\ err.status < INTERNAL_SERVER_ERROR
       THEN "ConfigEntryAuthFailed"
       ELSE "ConfigEntryNotReady"
  ELSE IF err.kind = "ClientError"
  THEN "ConfigEntryNotReady"
  ELSE err.kind

\* async_setup_entry up to await oauth_session.async_ensure_token_valid().
SetupStart ==
  /\ entry.setup_pc = "idle"
  /\ entry' = [EntryNone EXCEPT !.setup_pc = "token",
                 !.calls = <<"async_ensure_token_valid">>]
  /\ UNCHANGED <<stack, hostVars, vendorVars, coordVars, taskVars, last>>

\* Token validation returned or raised; on success auth, client and
\* coordinator are constructed and the first refresh sends its discovery.
SetupTokenDone ==
  /\ entry.setup_pc = "token"
  /\ \/ /\ entry' = [entry EXCEPT !.setup_pc = "refresh",
                       !.calls = Append(@, "discover_devices"),
                       !.resp = [d \in account |-> DeviceObj(d)]]
        /\ data' = EmptyMap
        /\ has_data' = FALSE
        /\ last_update_success' = TRUE
        /\ devices' = EmptyMap
        /\ is_initialized' = FALSE
     \/ \E err \in TokenErrors :
          /\ entry' = [entry EXCEPT !.setup_pc = "idle",
                         !.setup_result = SetupTokenError(err),
                         !.failed_stage = "token", !.token_err = err]
          /\ UNCHANGED coordVars
  /\ UNCHANGED <<stack, hostVars, vendorVars, taskVars, last>>

\* Mutant: the runtime data is stored before the first refresh is awaited.
SetupRefreshRaised_stored ==
  [entry EXCEPT !.setup_pc = "idle",
     !.setup_result = "ConfigEntryNotReady",
     !.failed_stage = "refresh", !.resp = EmptyMap,
     !.runtime_data = {"auth", "coordinator", "client"}]

\* except UpdateFailed as err: raise ConfigEntryNotReady(...) from err
SetupRefreshRaised ==
  [entry EXCEPT !.setup_pc = "idle",
     !.setup_result = "ConfigEntryNotReady",
     !.failed_stage = "refresh", !.resp = EmptyMap]

\* The first refresh returned or raised UpdateFailed; on success the runtime
\* data is stored and the platforms are forwarded.
SetupRefreshDone ==
  /\ entry.setup_pc = "refresh"
  /\ \/ /\ FirstRefreshOk(entry.resp)
        /\ entry' = [entry EXCEPT !.setup_pc = "forward",
                       !.runtime_data = {"auth", "coordinator", "client"},
                       !.calls = Append(@, "async_forward_entry_setups"),
                       !.resp = EmptyMap]
     \/ /\ FirstRefreshRaised
        /\ last_update_success' = last_update_success
        /\ entry' = SetupRefreshRaised
  /\ UNCHANGED <<stack, hostVars, vendorVars, taskVars, last>>

SetupForwardDone ==
  /\ entry.setup_pc = "forward"
  /\ entry' = [entry EXCEPT !.setup_pc = "loaded", !.setup_result = "ok",
                 !.forwarded = PLATFORMS]
  /\ UNCHANGED <<stack, hostVars, vendorVars, coordVars, taskVars, last>>

\* What a close() can raise.
CloseErrors == {"OSError", "AttributeError", "RuntimeError"}
Resources == <<"client", "auth", "coordinator">>

\* The except clause around each resource's close().
UnloadCatches(res, err) ==
  IF res = "coordinator" THEN err \in {"OSError", "AttributeError"}
                         ELSE err = "OSError"

\* Mutant: the coordinator is closed before auth.
AfterClose_coordinator(res) ==
  CASE res = "client" -> "coordinator"
    [] res = "coordinator" -> "auth"
    [] OTHER -> "platforms"

\* What follows the close of res in async_unload_entry.
AfterClose(res) ==
  CASE res = "client" -> "auth"
    [] res = "auth" -> "coordinator"
    [] OTHER -> "platforms"

CallOf(pc) ==
  IF pc = "platforms" THEN "async_unload_platforms" ELSE pc \o ".close"

\* async_unload_entry up to await client.close().
UnloadStart ==
  /\ entry.setup_pc = "loaded"
  /\ entry.unload_pc = "idle"
  /\ entry' = [entry EXCEPT !.unload_pc = Resources[1],
                 !.calls = <<CallOf(Resources[1])>>,
                 !.unload_result = "none", !.platform_result = "none",
                 !.raised = {}]
  /\ UNCHANGED <<stack, hostVars, vendorVars, coordVars, taskVars, last>>

\* The close() of one resource returned or raised.  A caught error is logged
\* and the handler goes on to its next await; any other error leaves
\* async_unload_entry at once.
UnloadCloseDone(res) ==
  /\ entry.unload_pc = res
  /\ \/ entry' = [entry EXCEPT !.unload_pc = AfterClose(res),
                    !.calls = Append(@, CallOf(AfterClose(res)))]
     \/ \E err \in CloseErrors :
          IF UnloadCatches(res, err)
          THEN entry' = [entry EXCEPT !.unload_pc = AfterClose(res),
                           !.calls = Append(@, CallOf(AfterClose(res))),
                           !.raised = @ \cup {res}]
          ELSE entry' = [entry EXCEPT !.unload_pc = "idle",
                           !.unload_result = err,
                           !.raised = @ \cup {res}]
  /\ UNCHANGED <<stack, hostVars, vendorVars, coordVars, taskVars, last>>

\* async_unload_platforms returned; its result is what unload returns.  The
\* host discards an entry whose unload returned True.
UnloadPlatformsDone ==
  /\ entry.unload_pc = "platforms"
  /\ \E unload_result \in BOOLEAN :
       entry' = [entry EXCEPT !.unload_pc = "idle",
                   !.platform_result = IF unload_result THEN "True" ELSE "False",
                   !.unload_result = IF unload_result THEN "True" ELSE "False",
                   !.setup_pc = IF unload_result THEN "idle" ELSE @,
                   !.forwarded = IF unload_result THEN {} ELSE @]
  /\ UNCHANGED <<stack, hostVars, vendorVars, coordVars, taskVars, last>>

EntryInit ==
  /\ stack = "client"
  /\ account \in SUBSET Devices
  /\ srv = [d \in account |-> InitialReport(d)]
  /\ data = EmptyMap
  /\ has_data = FALSE
  /\ last_update_success = TRUE
  /\ devices = EmptyMap
  /\ is_initialized = FALSE
  /\ slot = [s \in Slots |-> IdleSlot]
  /\ dref = IdleDref
  /\ cmd = IdleCmd
  /\ cmdCount = 0
  /\ last = NoEv
  /\ entry = EntryNone
  /\ view = NoView
  /\ entities = NoEntities
  /\ auth = AuthNone
  /\ flow = FlowNone
  /\ registry = NoRegistry

EntryNext ==
  \/ SetupStart
  \/ SetupTokenDone
  \/ SetupRefreshDone
  \/ SetupForwardDone
  \/ UnloadStart
  \/ \E res \in {"client", "auth", "coordinator"} : UnloadCloseDone(res)
  \/ UnloadPlatformsDone

SpecEntry == EntryInit /\ [][EntryNext]_vars

\* ------------------------------------------------- entity read properties
\* None is the empty set, a value v the set {v}; a Device object of the
\* client stack is a record under the vendor's field names (is_online is
\* isOnline, is_turned_on is isTurnedOn).

\* dict.get(key)
Get(rec, key) == IF key \in DOMAIN rec THEN {rec[key]} ELSE {}

\* dict.get(key, default)
GetOr(rec, key, default) == IF key \in DOMAIN rec THEN rec[key] ELSE default

\* self.coordinator.data.get(device_id)
Lookup(snapshot, id) == Get(snapshot, id)

\* if device_data: (a dict is false when empty)
Truthy(found) == \E rec \in found : DOMAIN rec # {}

TheOne(found) == CHOOSE rec \in found : TRUE

\* Mutant: the target temperature is read from currentTemperature.
TargetTemperature_current(snapshot, id) ==
  IF Truthy(Lookup(snapshot, id))
  THEN Get(TheOne(Lookup(snapshot, id)), "currentTemperature")
  ELSE {}

CurrentTemperature(snapshot, id) ==
  IF Truthy(Lookup(snapshot, id))
  THEN Get(TheOne(Lookup(snapshot, id)), "currentTemperature")
  ELSE {}

TargetTemperature(snapshot, id) ==
  IF Truthy(Lookup(snapshot, id))
  THEN Get(TheOne(Lookup(snapshot, id)), "setpoint")
  ELSE {}

\* Mutant: the table of const.py, where Defrost is a heating mode too.
ModeMapping_defrost(thermostat_mode) ==
  IF thermostat_mode = {"Program"} THEN {"auto"}
  ELSE IF thermostat_mode \in {{"Eco"}, {"Comfort"}, {"Defrost"}} THEN {"heat"}
  ELSE IF thermostat_mode = {"Off"} THEN {"off"}
  ELSE {}

\* mode_mapping.get(thermostat_mode)
ModeMapping(thermostat_mode) ==
  IF thermostat_mode = {"Program"} THEN {"auto"}
  ELSE IF thermostat_mode \in {{"Eco"}, {"Comfort"}} THEN {"heat"}
  ELSE IF thermostat_mode = {"Off"} THEN {"off"}
  ELSE {}

HvacMode(snapshot, id) ==
  IF Truthy(Lookup(snapshot, id))
  THEN ModeMapping(Get(TheOne(Lookup(snapshot, id)), "thermostatMode"))
  ELSE {}

\* available of the api stack's climate and switch entities
ApiAvailable(snapshot, id) ==
  IF Truthy(Lookup(snapshot, id))
  THEN GetOr(TheOne(Lookup(snapshot, id)), "isOnline", FALSE)
  ELSE FALSE

ClimateAttributes(snapshot, id) ==
  IF ~Truthy(Lookup(snapshot, id))
  THEN EmptyMap
  ELSE [thermostat_mode |-> Get(TheOne(Lookup(snapshot, id)), "thermostatMode"),
        room_name |-> Get(TheOne(Lookup(snapshot, id)), "roomName")]

\* is_on of the api stack's switch entity
ApiIsOn(snapshot, id) ==
  IF Truthy(Lookup(snapshot, id))
  THEN {GetOr(TheOne(Lookup(snapshot, id)), "isTurnedOn", FALSE)}
  ELSE {}

ApiSwitchAttributes(snapshot, id) ==
  IF ~Truthy(Lookup(snapshot, id))
  THEN EmptyMap
  ELSE [room_name |-> Get(TheOne(Lookup(snapshot, id)), "roomName")]

\* isinstance(device, SwitchDevice)
IsSwitchDevice(found) ==
  \E device \in found : device.interface = INTERFACE_SWITCH

\* is_on of the client stack's switch entity
ClientIsOn(snapshot, id) ==
  IF IsSwitchDevice(Lookup(snapshot, id))
  THEN {TheOne(Lookup(snapshot, id)).isTurnedOn}
  ELSE {}

ClientSwitchAttributes(snapshot, id) ==
  IF ~IsSwitchDevice(Lookup(snapshot, id))
  THEN EmptyMap
  ELSE [room_name |-> {TheOne(Lookup(snapshot, id)).roomName}]

\* Mutant: availability read from the device alone.
EntityAvailable_device(success, snapshot, id) ==
  IF Lookup(snapshot, id) # {}
  THEN TheOne(Lookup(snapshot, id)).isOnline
  ELSE FALSE

\* WattsVisionEntity.available
EntityAvailable(success, snapshot, id) ==
  IF ~success
  THEN FALSE
  ELSE IF Lookup(snapshot, id) # {}
  THEN TheOne(Lookup(snapshot, id)).isOnline
  ELSE FALSE

\* -------------------------------------------- snapshots the entities read
INTERFACE_OTHER == "action.devices.types.LIGHT"
RawModes == {"Program", "Eco", "Comfort", "Off", "Defrost"}

\* The fields the code indexes (deviceId, friendlyName) are in every record;
\* a field the code reads with .get may be missing from a dict of the api
\* stack, while a Device object of the client stack has every attribute.
Base(d, interface) ==
  [deviceId |-> d, interface |-> interface, friendlyName |-> d,
   roomName |-> "Hall"]

Optional(st, parts) == IF st = "api" THEN parts \cup {EmptyMap} ELSE parts

ModeParts == {[thermostatMode |-> m] : m \in RawModes}
TemperatureParts == {[currentTemperature |-> 19, setpoint |-> 21]}
OnlineParts == {[isOnline |-> b] : b \in BOOLEAN}
StateParts == {[isTurnedOn |-> b] : b \in BOOLEAN}

Records(st, d) ==
  {Merge(Merge(Merge(Base(d, INTERFACE_THERMOSTAT), m), t), o) :
     m \in Optional(st, ModeParts), t \in Optional(st, TemperatureParts),
     o \in Optional(st, OnlineParts)}
  \cup {Merge(Merge(Base(d, INTERFACE_SWITCH), x), o) :
          x \in Optional(st, StateParts), o \in Optional(st, OnlineParts)}
  \cup {Merge(Base(d, INTERFACE_OTHER), o) : o \in OnlineParts}

Snapshots(st) ==
  UNION {{f \in [S -> UNION {Records(st, d) : d \in S}] :
            \A d \in S : f[d] \in Records(st, d)} : S \in SUBSET Devices}

\* A device keeps its kind: the record under an entity's id, when there is
\* one, is of the interface the entity was created for.
StillA(interface, snapshot, d) ==
  d \in DOMAIN snapshot => snapshot[d].interface = interface

\* The host reads the state properties of the climate entity of device d.
ReadClimate(d) ==
  /\ stack = "api"
  /\ StillA(INTERFACE_THERMOSTAT, data, d)
  /\ view' = [kind |-> "climate", id |-> d,
              current_temperature |-> CurrentTemperature(data, d),
              target_temperature |-> TargetTemperature(data, d),
              hvac_mode |-> HvacMode(data, d),
              available |-> ApiAvailable(data, d),
              attributes |-> ClimateAttributes(data, d)]
  /\ UNCHANGED <<stack, vendorVars, coordVars, taskVars, last, entry,
                 entities, auth, flow, registry>>

\* The host reads the state properties of the switch entity of device d.
ReadSwitch(d) ==
  /\ StillA(INTERFACE_SWITCH, data, d)
  /\ view' = IF stack = "api"
             THEN [kind |-> "switch", id |-> d,
                   is_on |-> ApiIsOn(data, d),
                   available |-> ApiAvailable(data, d),
                   attributes |-> ApiSwitchAttributes(data, d)]
             ELSE [kind |-> "switch", id |-> d,
                   is_on |-> ClientIsOn(data, d),
                   available |-> EntityAvailable(last_update_success, data, d),
                   attributes |-> ClientSwitchAttributes(data, d)]
  /\ UNCHANGED <<stack, vendorVars, coordVars, taskVars, last, entry,
                 entities, auth, flow, registry>>

PlatformInterface(platform) ==
  IF platform = "climate" THEN INTERFACE_THERMOSTAT ELSE INTERFACE_SWITCH

\* Mutant: an entity for every device of the snapshot.
Matches_all(platform, device) == TRUE

\* device_data.get("interface") == INTERFACE_...; isinstance(device, SwitchDevice)
Matches(platform, device) ==
  Get(device, "interface") = {PlatformInterface(platform)}

\* The entities list a platform's async_setup_entry builds from the snapshot.
Created(platform, snapshot) ==
  SelectSeq(Order(DOMAIN snapshot), LAMBDA d : Matches(platform, snapshot[d]))

\* async_setup_entry of a platform: async_add_entities is called when the
\* list is not empty.
PlatformSetup(platform) ==
  /\ stack = "api" \/ platform = "switch"
  /\ ~entities[platform].done
  /\ entities' = [entities EXCEPT ![platform] =
       [done |-> TRUE,
        add_calls |-> IF Created(platform, data) # <<>> THEN 1 ELSE 0,
        created |-> Created(platform, data)]]
  /\ UNCHANGED <<stack, vendorVars, coordVars, taskVars, last, entry,
                 view, auth, flow, registry>>

ReadInit ==
  /\ stack \in Stacks
  /\ account = {}
  /\ srv = EmptyMap
  /\ data \in Snapshots(stack)
  /\ has_data = TRUE
  /\ last_update_success \in BOOLEAN
  /\ devices = IF stack = "client" THEN data ELSE EmptyMap
  /\ is_initialized = (stack = "client")
  /\ slot = [s \in Slots |-> IdleSlot]
  /\ dref = IdleDref
  /\ cmd = IdleCmd
  /\ cmdCount = 0
  /\ last = NoEv
  /\ entry = EntryNone
  /\ view = NoView
  /\ entities = NoEntities
  /\ auth = AuthNone
  /\ flow = FlowNone
  /\ registry = NoRegistry

ReadNext ==
  \/ \E d \in Devices : ReadClimate(d)
  \/ \E d \in Devices : ReadSwitch(d)
  \/ \E platform \in {"climate", "switch"} : PlatformSetup(platform)

SpecRead == ReadInit /\ [][ReadNext]_vars

\* What the entity of device d returns for its state: mode, temperatures,
\* on/off state and attributes.
StateReads(st, snapshot, d) ==
  IF Lookup(snapshot, d) # {} /\ snapshot[d].interface = INTERFACE_THERMOSTAT
  THEN [hvac_mode |-> HvacMode(snapshot, d),
        current_temperature |-> CurrentTemperature(snapshot, d),
        target_temperature |-> TargetTemperature(snapshot, d),
        attributes |-> ClimateAttributes(snapshot, d)]
  ELSE IF st = "api"
  THEN [is_on |-> ApiIsOn(snapshot, d),
        attributes |-> ApiSwitchAttributes(snapshot, d)]
  ELSE [is_on |-> ClientIsOn(snapshot, d),
        attributes |-> ClientSwitchAttributes(snapshot, d)]

\* available of the entity of device d.
Available(st, success, snapshot, d) ==
  IF st = "api" THEN ApiAvailable(snapshot, d)
                ELSE EntityAvailable(success, snapshot, d)

\* The entities of a stack: the api stack has a climate entity for each
\* thermostat and a switch entity for each switch, the client stack's
\* switch platform an entity for each switch.
EntityIds(st, snapshot) ==
  {d \in DOMAIN snapshot :
     \/ snapshot[d].interface = INTERFACE_SWITCH
     \/ st = "api" /\ snapshot[d].interface = INTERFACE_THERMOSTAT}

\* ----------------------------------------------- access token, requests
MaxTokens == 2
MaxCalls == 3
Callers == {"poll", "command"}
RefreshErrors == {"ClientResponseError", "ClientError"}

IdleCall ==
  [pc |-> "idle", op |-> "none", state |-> "none", checked |-> FALSE,
   refreshes |-> 0, sent |-> 0, sent_expired |-> FALSE,
   refresh_err |-> "none", err |-> "none", token |-> {}, current |-> FALSE]

AuthIdle ==
  [token |-> [expired |-> FALSE, gen |-> 0],
   call |-> [c \in Callers |-> IdleCall],
   started |-> 0]

\* self._auth._websession.request(method, url, headers=headers, ...): the
\* request leaves with the token just obtained.
SendRequest(call, token) ==
  [call EXCEPT !.pc = "http", !.checked = TRUE, !.sent = @ + 1,
               !.sent_expired = token.expired, !.token = {token.gen}]

\* return self._oauth_session.token["access_token"]
ReturnToken(call, token) ==
  [call EXCEPT !.pc = "idle", !.state = "returned", !.checked = TRUE,
               !.token = {token.gen}, !.current = TRUE]

\* Mutant: make_request goes on with the token it has when the validity
\* check raises.
MakeRequestTokenRaised_send(call, token, err) ==
  [SendRequest(call, token) EXCEPT !.refresh_err = err]

\* make_request: the validity check raised, the error leaves make_request
\* before the request statement.
MakeRequestTokenRaised(call, token, err) ==
  [call EXCEPT !.pc = "idle", !.state = "failed", !.checked = TRUE,
               !.refresh_err = err, !.err = err]

\* Mutant: the token at hand is returned when the validity check raises.
GetTokenRaised_stale(call, token, err) ==
  [ReturnToken(call, token) EXCEPT !.refresh_err = err, !.current = FALSE]

\* async_get_access_token / refresh_tokens: the validity check raised.
GetTokenRaised(call, token, err) ==
  [call EXCEPT !.pc = "idle", !.state = "failed", !.checked = TRUE,
               !.refresh_err = err, !.err = err]

\* Time passes: the access token reaches its expiry.
TokenExpires ==
  /\ ~auth.token.expired
  /\ auth.token.gen < MaxTokens
  /\ auth' = [auth EXCEPT !.token.expired = TRUE]
  /\ UNCHANGED <<stack, vendorVars, coordVars, taskVars, last, entry,
                 view, entities, flow, registry>>

\* A call of make_request (op "make_request") or of async_get_access_token /
\* refresh_tokens alone (op "get_token"), up to its first suspension.
\* async_ensure_token_valid returns at once for a valid token and otherwise
\* refreshes it, one refresh at a time.
TokenCallStart(c, op) ==
  /\ auth.call[c].pc = "idle"
  /\ auth.started < MaxCalls
  /\ \A o \in Callers : auth.call[o].pc # "refreshing"
  /\ auth' = [auth EXCEPT
       !.started = @ + 1,
       !.call[c] =
         IF auth.token.expired
         THEN [IdleCall EXCEPT !.pc = "refreshing", !.op = op, !.refreshes = 1]
         ELSE IF op = "make_request"
         THEN SendRequest([IdleCall EXCEPT !.op = op], auth.token)
         ELSE ReturnToken([IdleCall EXCEPT !.op = op], auth.token)]
  /\ UNCHANGED <<stack, vendorVars, coordVars, taskVars, last, entry,
                 view, entities, flow, registry>>

\* The token endpoint answered the refresh, or the refresh raised.
TokenRefreshDone(c) ==
  /\ auth.call[c].pc = "refreshing"
  /\ \/ LET token == [expired |-> FALSE, gen |-> auth.token.gen + 1]
        IN  auth' = [auth EXCEPT
              !.token = token,
              !.call[c] = IF @.op = "make_request"
                          THEN SendRequest(@, token)
                          ELSE ReturnToken(@, token)]
     \/ \E err \in RefreshErrors :
          auth' = [auth EXCEPT
            !.call[c] = IF @.op = "make_request"
                        THEN MakeRequestTokenRaised(@, auth.token, err)
                        ELSE GetTokenRaised(@, auth.token, err)]
  /\ UNCHANGED <<stack, vendorVars, coordVars, taskVars, last, entry,
                 view, entities, flow, registry>>

\* The API answered: response.raise_for_status() raises or the body returns.
HttpDone(c) ==
  /\ auth.call[c].pc = "http"
  /\ \/ auth' = [auth EXCEPT !.call[c].pc = "idle",
                             !.call[c].state = "returned"]
     \/ auth' = [auth EXCEPT !.call[c].pc = "idle",
                             !.call[c].state = "failed",
                             !.call[c].err = "ClientResponseError"]
  /\ UNCHANGED <<stack, vendorVars, coordVars, taskVars, last, entry,
                 view, entities, flow, registry>>

AuthInit ==
  /\ stack = "api"
  /\ account = {}
  /\ srv = EmptyMap
  /\ data = EmptyMap
  /\ has_data = FALSE
  /\ last_update_success = TRUE
  /\ devices = EmptyMap
  /\ is_initialized = FALSE
  /\ slot = [s \in Slots |-> IdleSlot]
  /\ dref = IdleDref
  /\ cmd = IdleCmd
  /\ cmdCount = 0
  /\ last = NoEv
  /\ entry = EntryNone
  /\ view = NoView
  /\ entities = NoEntities
  /\ auth \in {[AuthIdle EXCEPT !.token.expired = b] : b \in BOOLEAN}
  /\ flow = FlowNone
  /\ registry = NoRegistry

AuthNext ==
  \/ TokenExpires
  \/ \E c \in Callers, op \in {"make_request", "get_token"} : TokenCallStart(c, op)
  \/ \E c \in Callers : TokenRefreshDone(c)
  \/ \E c \in Callers : HttpDone(c)

SpecAuth == AuthInit /\ [][AuthNext]_vars

\* ------------------------------------------------------------ config flow
MaxFlows == 2
FlowIds == 1..MaxFlows
FlowHandlers == {"homeassistant", "custom_components"}

NoFlow == [pc |-> "none", result |-> "none", entry_at_start |-> FALSE]

\* self._async_current_entries()
CurrentEntries == flow.entries

\* OAuth2FlowHandler.async_step_user: the handler of homeassistant/components
\* aborts when an entry exists; the handler of custom_components inherits the
\* step, which goes on to the external authorization.
UserStep(f) ==
  /\ flow.f[f].pc = "none"
  /\ flow' = [flow EXCEPT !.f[f] =
       IF flow.handler = "homeassistant" /\ CurrentEntries > 0
       THEN [pc |-> "done", result |-> "already_configured",
             entry_at_start |-> TRUE]
       ELSE [pc |-> "external", result |-> "none",
             entry_at_start |-> CurrentEntries > 0]]
  /\ UNCHANGED <<stack, vendorVars, coordVars, taskVars, last, entry,
                 view, entities, auth, registry>>

\* The authorization callback reaches the flow, or the user gives up.
ExternalStepDone(f) ==
  /\ flow.f[f].pc = "external"
  /\ \/ flow' = [flow EXCEPT !.f[f].pc = "creation"]
     \/ flow' = [flow EXCEPT !.f[f].pc = "done",
                             !.f[f].result = "user_rejected_authorize"]
  /\ UNCHANGED <<stack, vendorVars, coordVars, taskVars, last, entry,
                 view, entities, auth, registry>>

\* The token exchange ends: the inherited creation step creates the entry, or
\* aborts with oauth_failed.
CreationDone(f) ==
  /\ flow.f[f].pc = "creation"
  /\ \/ flow' = [flow EXCEPT !.f[f].pc = "done",
                             !.f[f].result = "create_entry",
                             !.entries = @ + 1]
     \/ flow' = [flow EXCEPT !.f[f].pc = "done",
                             !.f[f].result = "oauth_failed"]
  /\ UNCHANGED <<stack, vendorVars, coordVars, taskVars, last, entry,
                 view, entities, auth, registry>>

FlowInit ==
  /\ stack = "client"
  /\ account = {}
  /\ srv = EmptyMap
  /\ data = EmptyMap
  /\ has_data = FALSE
  /\ last_update_success = TRUE
  /\ devices = EmptyMap
  /\ is_initialized = FALSE
  /\ slot = [s \in Slots |-> IdleSlot]
  /\ dref = IdleDref
  /\ cmd = IdleCmd
  /\ cmdCount = 0
  /\ last = NoEv
  /\ entry = EntryNone
  /\ view = NoView
  /\ entities = NoEntities
  /\ auth = AuthNone
  /\ flow \in {[handler |-> h, entries |-> n, f |-> [i \in FlowIds |-> NoFlow]] :
                 h \in FlowHandlers, n \in {0, 1}}
  /\ registry = NoRegistry

FlowNext ==
  \/ \E f \in FlowIds : UserStep(f)
  \/ \E f \in FlowIds : ExternalStepDone(f)
  \/ \E f \in FlowIds : CreationDone(f)

SpecFlow == FlowInit /\ [][FlowNext]_vars

\* -------------------------------------- hass.data's coordinator registry
\* The api stack's platforms look their coordinator up under one key of
\* hass.data and create it when the key is missing.  The host sets the
\* platforms of an entry up as concurrent tasks; unload leaves the key.

\* What a first refresh of a new coordinator fetches.
FetchedSnapshot == [d \in account |-> Merge(Summary(d), srv[d])]

NoSetup == [pc |-> "idle", coordinator |-> {}]

RegistryIdle ==
  [key |-> {}, kept |-> 0, coordinators |-> <<>>,
   setup |-> [platform \in PLATFORMS |-> NoSetup]]

\* The key as an earlier load of the entry left it.
RegistryKept ==
  [RegistryIdle EXCEPT
     !.key = {1}, !.kept = 1,
     !.coordinators = <<[refreshed |-> TRUE, data |-> FetchedSnapshot]>>]

\* entities = [...]; if entities: async_add_entities(entities, ...)
AddEntities(platform, snapshot) ==
  [done |-> TRUE,
   add_calls |-> IF Created(platform, snapshot) # <<>> THEN 1 ELSE 0,
   created |-> Created(platform, snapshot)]

\* A platform's async_setup_entry up to its await: the key is looked up; a
\* coordinator found there is used at once, otherwise one is constructed and
\* its first refresh awaited.
RegistryPlatformStart(platform) ==
  /\ registry.setup[platform].pc = "idle"
  /\ IF registry.key = {}
     THEN /\ registry' = [registry EXCEPT
               !.coordinators = Append(@, [refreshed |-> FALSE, data |-> EmptyMap]),
               !.setup[platform] =
                 [pc |-> "first_refresh",
                  coordinator |-> {Len(registry.coordinators) + 1}]]
          /\ entities' = entities
     ELSE /\ registry' = [registry EXCEPT
               !.setup[platform] = [pc |-> "done", coordinator |-> registry.key]]
          /\ entities' = [entities EXCEPT ![platform] =
               AddEntities(platform,
                           registry.coordinators[TheOne(registry.key)].data)]
  /\ UNCHANGED <<stack, vendorVars, coordVars, taskVars, last, entry,
                 view, auth, flow>>

\* The first refresh of the platform's own coordinator returned: the
\* coordinator is stored under the key and the entities are built from it; or
\* it raised and the platform's setup ends with that error.
RegistryFirstRefreshDone(platform) ==
  /\ registry.setup[platform].pc = "first_refresh"
  /\ LET k == TheOne(registry.setup[platform].coordinator)
     IN \/ /\ registry' = [registry EXCEPT
                !.coordinators[k] = [refreshed |-> TRUE, data |-> FetchedSnapshot],
                !.key = {k},
                !.setup[platform].pc = "done"]
           /\ entities' = [entities EXCEPT ![platform] =
                AddEntities(platform, FetchedSnapshot)]
        \/ /\ registry' = [registry EXCEPT !.setup[platform].pc = "failed"]
           /\ entities' = entities
  /\ UNCHANGED <<stack, vendorVars, coordVars, taskVars, last, entry,
                 view, auth, flow>>

RegistryInit ==
  /\ stack = "api"
  /\ account \in SUBSET Devices
  /\ srv = [d \in account |-> InitialReport(d)]
  /\ data = EmptyMap
  /\ has_data = FALSE
  /\ last_update_success = TRUE
  /\ devices = EmptyMap
  /\ is_initialized = FALSE
  /\ slot = [s \in Slots |-> IdleSlot]
  /\ dref = IdleDref
  /\ cmd = IdleCmd
  /\ cmdCount = 0
  /\ last = NoEv
  /\ entry = EntryNone
  /\ view = NoView
  /\ entities = NoEntities
  /\ auth = AuthNone
  /\ flow = FlowNone
  /\ registry \in {RegistryIdle, RegistryKept}

RegistryNext ==
  \/ \E platform \in PLATFORMS : RegistryPlatformStart(platform)
  \/ \E platform \in PLATFORMS : RegistryFirstRefreshDone(platform)

SpecRegistry == RegistryInit /\ [][RegistryNext]_vars

\* ------------------------------------------------------------ properties
CommandOps == {"set_temperature", "set_hvac_mode", "turn_on", "turn_off"}
SetupOver == entry.setup_pc \in {"idle", "loaded"} /\ entry.setup_result # "none"
UnloadOver == entry.unload_pc = "idle" /\ entry.unload_result # "none"

\* C1: a poll cycle in which a fetch fails (discovery, one per-device report,
\* get_devices_report) leaves the snapshot with the same device ids and the
\* same record for each id as before the cycle, nothing fetched earlier in
\* the cycle written into it, and leaves last_update_success false.  No
\* step of a cycle short of its completion writes the snapshot.
C1_FailedPollKeepsSnapshot ==
  [][\A s \in Slots :
       /\ (slot[s].pc # "idle" /\ slot'[s].pc # "idle" /\ slot'[s] # slot[s])
            => (data' = data /\ has_data' = has_data)
       /\ (slot[s].pc # "idle" /\ slot'[s].pc = "idle"
             /\ last'.op = "poll" /\ last'.who = s /\ last'.outcome = "fail")
            => (data' = data /\ has_data' = has_data /\ ~last_update_success')
    ]_vars

C1_Witness ==
  /\ last.op = "poll"
  /\ last.outcome = "fail"
  /\ has_data
  /\ Cardinality(DOMAIN data) = 2
  /\ \E d \in DOMAIN data : d \in DOMAIN srv /\ data[d] # Merge(Summary(d), srv[d])

\* C2: when async_refresh_device(d) fails because get_device raises, the
\* record of every device in the snapshot and last_update_success are the
\* same after the call as before it.
C2_FailedDeviceRefreshChangesNothing ==
  [][(dref.pc = "wait" /\ dref'.pc = "idle" /\ last'.op = "refresh_device"
        /\ last'.outcome \in {"caught", "raised"})
       => (data' = data /\ has_data' = has_data /\ devices' = devices
             /\ last_update_success' = last_update_success)
    ]_vars

C2_Witness ==
  /\ last.op = "refresh_device"
  /\ last.outcome = "caught"
  /\ has_data
  /\ last.who \in DOMAIN data
  /\ last_update_success

\* C8: the poll that succeeds after one or more failed polls leaves
\* last_update_success true and the snapshot holding the fetched records.
C8_SuccessfulPollAfterFailure ==
  (last.op = "poll" /\ last.outcome = "ok" /\ last.stale)
    => /\ last_update_success
       /\ has_data
       /\ \A id \in DOMAIN last.fetched :
            id \in DOMAIN data /\ data[id] = last.fetched[id]

C8_Witness ==
  /\ last.op = "poll"
  /\ last.outcome = "ok"
  /\ last.stale
  /\ DOMAIN last.fetched # {}
  /\ last_update_success

\* C9: an entity write command that the API client completed successfully
\* is followed by exactly one coordinator refresh request.
C9_OneRefreshRequestPerCommand ==
  (last.op \in CommandOps /\ last.outcome = "ok") => last.requests = 1

C3_UnloadReleasesEveryResource ==
  UnloadOver
    => \A c \in {"client.close", "auth.close", "coordinator.close",
                 "async_unload_platforms"} :
         \E i \in DOMAIN entry.calls : entry.calls[i] = c

\* C4: async_unload_entry returns exactly the result of the platform unload,
\* whichever close operations raised.
C4_UnloadReturnsPlatformResult ==
  UnloadOver
    => /\ entry.platform_result \in {"True", "False"}
       /\ entry.unload_result = entry.platform_result

\* C5: every run of async_setup_entry ends in success, ConfigEntryAuthFailed
\* or ConfigEntryNotReady; no other error leaves it.
C5_SetupOutcomes ==
  SetupOver
    => entry.setup_result \in {"ok", "ConfigEntryAuthFailed", "ConfigEntryNotReady"}

\* C6: a token validation failure with an HTTP status in 400..499 raises
\* ConfigEntryAuthFailed; one with another HTTP status, a transport failure
\* or a timeout raises ConfigEntryNotReady.
C6_TokenFailureClassified ==
  (SetupOver /\ entry.failed_stage = "token"
     /\ entry.token_err.kind \in {"ClientResponseError", "ClientError", "TimeoutError"})
    => IF entry.token_err.kind = "ClientResponseError"
          /\ entry.token_err.status \in 400..499
       THEN entry.setup_result = "ConfigEntryAuthFailed"
       ELSE entry.setup_result = "ConfigEntryNotReady"

\* C7: when the first refresh of setup fails, the coordinator stays
\* uninitialized (flag false, device map as constructed, no snapshot
\* published) and setup raises ConfigEntryNotReady.
C7_FailedFirstRefreshNotReady ==
  (SetupOver /\ entry.failed_stage = "refresh")
    => /\ ~is_initialized
       /\ devices = EmptyMap
       /\ ~has_data
       /\ entry.setup_result = "ConfigEntryNotReady"
       /\ entry.setup_pc = "idle"
       /\ entry.runtime_data = {}

C7_Witness ==
  /\ SetupOver
  /\ entry.failed_stage = "refresh"
  /\ account # {}
  /\ entry.setup_result = "ConfigEntryNotReady"

\* C11: an entity write operation whose client call fails returns normally,
\* the error caught and logged, for every failure of the call.
C11_CommandFailureCaught ==
  (last.op \in CommandOps /\ last.err # "none") => last.outcome = "caught"

\* C19: async_set_hvac_mode sends one set-mode command carrying the vendor
\* mode Comfort for Heat, Off for Off and Program for Auto; for any other
\* HVAC mode it returns with no command sent, no refresh requested and
\* nothing raised.
C19_SetHvacModeCommand ==
  [][(cmdCount' = cmdCount + 1)
       => /\ (cmd'.pc = "sent" /\ cmd'.op = "set_hvac_mode")
               => /\ DOMAIN cmd'.arg = {"mode"}
                  /\ \/ cmd'.input = "heat" /\ ModeName(cmd'.arg.mode) = "Comfort"
                     \/ cmd'.input = "off" /\ ModeName(cmd'.arg.mode) = "Off"
                     \/ cmd'.input = "auto" /\ ModeName(cmd'.arg.mode) = "Program"
          /\ (cmd'.pc = "idle" /\ last'.op = "set_hvac_mode")
               => /\ last'.outcome = "not_sent"
                  /\ last'.input \notin {"heat", "off", "auto"}
                  /\ last'.requests = 0
                  /\ slot' = slot
                  /\ srv' = srv
    ]_vars

C19_Witness ==
  /\ cmd.pc = "sent"
  /\ cmd.op = "set_hvac_mode"
  /\ cmd.input = "heat"
  /\ ModeName(cmd.arg.mode) = "Comfort"

\* C12: hvac_mode is a function of the raw thermostat mode alone: Program
\* gives Auto, Eco and Comfort give Heat, Off gives Off, and any other raw
\* value, a record without a mode and a device missing from the snapshot
\* give None.
C12_HvacModeOfRawMode ==
  view.kind = "climate"
    => LET raw == IF view.id \in DOMAIN data
                     /\ "thermostatMode" \in DOMAIN data[view.id]
                  THEN data[view.id].thermostatMode
                  ELSE "missing"
       IN  view.hvac_mode =
             CASE raw = "Program" -> {"auto"}
               [] raw = "Eco" -> {"heat"}
               [] raw = "Comfort" -> {"heat"}
               [] raw = "Off" -> {"off"}
               [] OTHER -> {}

C12_Witness ==
  /\ view.kind = "climate"
  /\ view.id \in DOMAIN data
  /\ "thermostatMode" \in DOMAIN data[view.id]
  /\ data[view.id].thermostatMode = "Defrost"
  /\ view.hvac_mode = {}

\* C13: with the entity's device id in the snapshot, each read property
\* returns the corresponding field of the snapshot record; with the id
\* absent, each read returns its unknown value (None, empty attributes,
\* unavailable).
C13_ReadsReturnSnapshotFields ==
  /\ view.kind = "climate"
       => IF view.id \in DOMAIN data
          THEN LET rec == data[view.id]
               IN  /\ "currentTemperature" \in DOMAIN rec
                        => view.current_temperature = {rec.currentTemperature}
                   /\ "setpoint" \in DOMAIN rec
                        => view.target_temperature = {rec.setpoint}
                   /\ "thermostatMode" \in DOMAIN rec
                        => view.attributes.thermostat_mode = {rec.thermostatMode}
                   /\ view.attributes.room_name = {rec.roomName}
          ELSE /\ view.current_temperature = {}
               /\ view.target_temperature = {}
               /\ view.hvac_mode = {}
               /\ view.attributes = EmptyMap
               /\ ~view.available
  /\ view.kind = "switch"
       => IF view.id \in DOMAIN data
          THEN LET rec == data[view.id]
               IN  /\ "isTurnedOn" \in DOMAIN rec
                        => view.is_on = {rec.isTurnedOn}
                   /\ view.attributes.room_name = {rec.roomName}
          ELSE /\ view.is_on = {}
               /\ view.attributes = EmptyMap
               /\ ~view.available

C13_Witness ==
  /\ view.kind = "climate"
  /\ view.id \in DOMAIN data
  /\ "setpoint" \in DOMAIN data[view.id]
  /\ view.target_temperature = {data[view.id].setpoint}
  /\ view.current_temperature # view.target_temperature

\* C15: WattsVisionEntity.available is true exactly when the coordinator's
\* last update succeeded, the entity's device id is in the snapshot and the
\* device's online flag is true.
C15_AvailableExactly ==
  (stack = "client" /\ view.kind = "switch")
    => view.available =
         (/\ last_update_success
          /\ view.id \in DOMAIN data
          /\ data[view.id].isOnline)

C15_Witness ==
  /\ stack = "client"
  /\ view.kind = "switch"
  /\ ~last_update_success
  /\ view.id \in DOMAIN data
  /\ data[view.id].isOnline
  /\ ~view.available

\* C18: a platform's setup creates one entity for each device of its kind in
\* the snapshot and none for any other device, and registers nothing when
\* no device matches.
C18_OneEntityPerMatchingDevice ==
  \A platform \in {"climate", "switch"} :
    entities[platform].done
      => LET created == entities[platform].created
             matching == {d \in DOMAIN data :
                            data[d].interface = PlatformInterface(platform)}
         IN  /\ \A d \in Devices :
                  Cardinality({i \in DOMAIN created : created[i] = d})
                    = IF d \in matching THEN 1 ELSE 0
             /\ entities[platform].add_calls = IF matching = {} THEN 0 ELSE 1

C18_Witness ==
  /\ entities["climate"].done
  /\ entities["switch"].done
  /\ entities["climate"].created = <<"T1", "S1">>
  /\ entities["switch"].add_calls = 0

PollFailedStep ==
  /\ last'.op = "poll"
  /\ last'.outcome = "fail"
  /\ \E s \in Slots : slot[s].pc # "idle" /\ slot'[s].pc = "idle"
  /\ has_data

\* C14 as stated: a poll that fails after a successful first refresh leaves
\* every entity returning what it returned before, availability included.
C14_SameReportsAfterFailedPoll ==
  [][PollFailedStep
       => \A d \in EntityIds(stack, data) :
            /\ StateReads(stack, data', d) = StateReads(stack, data, d)
            /\ Available(stack, last_update_success', data', d)
                 = Available(stack, last_update_success, data, d)
    ]_vars

\* C14: a poll that fails after a successful first refresh leaves the mode,
\* temperatures, on/off state and attributes every entity returns as they
\* were; an entity of the api stack keeps its availability, a
\* WattsVisionEntity becomes unavailable.
C14_SameStateAfterFailedPoll ==
  [][PollFailedStep
       => \A d \in EntityIds(stack, data) :
            /\ StateReads(stack, data', d) = StateReads(stack, data, d)
            /\ Available(stack, last_update_success', data', d)
                 = IF stack = "api"
                   THEN Available(stack, last_update_success, data, d)
                   ELSE FALSE
    ]_vars

C14_Witness ==
  /\ last.op = "poll"
  /\ last.outcome = "fail"
  /\ has_data
  /\ stack = "client"
  /\ "S1" \in EntityIds(stack, data)
  /\ ClientIsOn(data, "S1") = {TRUE}
  /\ ~Available(stack, last_update_success, data, "S1")

\* C16: every request make_request sends follows a completed validity check
\* and carries a token that is not expired when the request leaves; when
\* the check fails, no request is sent.
C16_NoRequestWithExpiredToken ==
  \A c \in Callers :
    /\ auth.call[c].sent > 0
         => auth.call[c].checked /\ ~auth.call[c].sent_expired
    /\ auth.call[c].refresh_err # "none" => auth.call[c].sent = 0

C16_Witness ==
  \E c \in Callers :
    /\ auth.call[c].op = "make_request"
    /\ auth.call[c].refreshes = 1
    /\ auth.call[c].sent = 1
    /\ auth.call[c].token = {1}

\* C17: the get-access-token operation returns the session's current token,
\* and only after the validity check; when the refresh fails it fails with
\* the refresh's error, returns no token and has refreshed once.
C17_GetTokenAfterCheck ==
  \A c \in Callers :
    auth.call[c].op = "get_token"
      => /\ auth.call[c].state = "returned"
              => /\ auth.call[c].checked
                 /\ auth.call[c].current
                 /\ auth.call[c].refresh_err = "none"
         /\ auth.call[c].refresh_err # "none"
              => /\ auth.call[c].state = "failed"
                 /\ auth.call[c].err = auth.call[c].refresh_err
                 /\ auth.call[c].token = {}
                 /\ auth.call[c].refreshes = 1

C17_Witness ==
  \E c \in Callers :
    /\ auth.call[c].op = "get_token"
    /\ auth.call[c].state = "failed"
    /\ auth.call[c].refresh_err = "ClientResponseError"
    /\ auth.call[c].refreshes = 1

\* C20: the domain has at most one config entry, and a user flow started
\* while an entry exists has aborted with already_configured.
C20_AtMostOneEntry ==
  /\ flow.entries <= 1
  /\ \A f \in FlowIds :
       flow.f[f].entry_at_start
         => flow.f[f].pc = "done" /\ flow.f[f].result = "already_configured"

\* C21: within one bulk fetch the first report is requested in the step that
\* handles the discovery's answer, each further report in the step that
\* stores the report before it; a cycle in which discovery or a report fails
\* ends there, with no further report requested and no mapping returned,
\* and a mapping that is returned holds every discovered device.
C21_DiscoveryThenReports ==
  [][stack = "api" =>
       \A s \in Slots :
         /\ (slot'[s].pc = "report"
               /\ (slot[s].pc # "report" \/ slot'[s].todo # slot[s].todo))
              => \/ /\ slot[s].pc = "discover"
                    /\ slot'[s].todo = Order(DOMAIN slot[s].resp)
                    /\ slot'[s].acc = EmptyMap
                 \/ /\ slot[s].pc = "report"
                    /\ slot'[s].todo = Tail(slot[s].todo)
                    /\ DOMAIN slot'[s].acc
                         = (DOMAIN slot[s].acc) \cup {Head(slot[s].todo)}
         /\ (slot[s].pc # "idle" /\ slot'[s].pc = "idle")
              => /\ last'.op = "poll" /\ last'.who = s
                 /\ \/ /\ last'.outcome = "fail"
                       /\ data' = data /\ has_data' = has_data
                    \/ /\ last'.outcome = "ok"
                       /\ data' = last'.fetched
                       /\ IF slot[s].pc = "discover"
                          THEN DOMAIN slot[s].resp = {} /\ data' = EmptyMap
                          ELSE /\ Tail(slot[s].todo) = <<>>
                               /\ DOMAIN data'
                                    = (DOMAIN slot[s].acc) \cup {Head(slot[s].todo)}
    ]_vars

C21_Witness ==
  /\ stack = "api"
  /\ last.op = "poll"
  /\ last.outcome = "fail"
  /\ last.dropped # {}
  /\ \A s \in Slots : slot[s].pc = "idle"
  /\ ~has_data

\* C22: a poll cycle that fails, whatever the error met inside it and also
\* when it is the discovery of an uninitialized coordinator that fails,
\* raises UpdateFailed to the host and no other error.
C22_PollFailureIsUpdateFailed ==
  (last.op = "poll" /\ last.outcome = "fail") => last.err = "UpdateFailed"

C22_Witness ==
  /\ stack = "client"
  /\ ~is_initialized
  /\ last.op = "poll"
  /\ last.outcome = "fail"
  /\ last.err = "UpdateFailed"
  /\ ~last_update_success

\* C23: a periodic poll of an initialized coordinator asks for the reports
\* of exactly the device ids known at that moment; when it succeeds, each
\* id of the response holds exactly the returned record and every other id
\* keeps the record it had.
C23_PollReplacesReturnedRecords ==
  [][stack = "client" =>
       /\ (slot["timer"].pc = "idle" /\ slot'["timer"].pc = "bulk")
            => /\ is_initialized
               /\ slot'["timer"].todo = Order(DOMAIN devices)
       /\ (slot["timer"].pc = "bulk" /\ slot'["timer"].pc = "idle"
             /\ last'.outcome = "ok")
            => /\ DOMAIN data' = (DOMAIN data) \cup (DOMAIN slot["timer"].resp)
               /\ \A id \in DOMAIN data' :
                    data'[id] = IF id \in DOMAIN slot["timer"].resp
                                THEN slot["timer"].resp[id]
                                ELSE data[id]
               /\ last_update_success'
    ]_vars

C23_Witness ==
  /\ stack = "client"
  /\ last.op = "poll"
  /\ last.outcome = "ok"
  /\ is_initialized
  /\ DOMAIN last.fetched = {"S1"}
  /\ DOMAIN data = {"T1", "S1"}
  /\ data["S1"].isTurnedOn = FALSE

\* C24: a record that async_refresh_device fetched after the poll's
\* get_devices_report request was sent, and wrote, is not replaced by a
\* different record out of that request's answer.
C24_NoEarlierReportOverLater ==
  [][(stack = "client" /\ slot["timer"].pc = "bulk"
        /\ slot'["timer"].pc = "idle" /\ last'.outcome = "ok")
       => \A id \in dref.overtaken \cap DOMAIN slot["timer"].resp :
            data'[id] = data[id]
    ]_vars

\* C25: the platform setups of one load construct at most one coordinator,
\* and the platforms that finished their setup built their entities from
\* the same coordinator.
C25_OneSharedCoordinator ==
  /\ Len(registry.coordinators) - registry.kept <= 1
  /\ \A p \in PLATFORMS, q \in PLATFORMS :
       (registry.setup[p].pc = "done" /\ registry.setup[q].pc = "done")
         => registry.setup[p].coordinator = registry.setup[q].coordinator

\* C26: in every run of async_unload_entry the steps invoked so far are, in
\* this order, the client's close, auth's close, the coordinator's close
\* and the platform unload: the client is closed first, before the
\* coordinator and before the platforms are unloaded.
C26_UnloadOrder ==
  (entry.unload_pc # "idle" \/ UnloadOver)
    => /\ Len(entry.calls) \in 1..4
       /\ entry.calls = SubSeq(<<"client.close", "auth.close",
                                 "coordinator.close", "async_unload_platforms">>,
                               1, Len(entry.calls))

C26_Witness ==
  /\ UnloadOver
  /\ Len(entry.calls) = 4
  /\ entry.calls[3] = "coordinator.close"
  /\ "client" \in entry.raised

\* C27: async_refresh_device returns normally whatever error the fetch of
\* the device raises: the error is caught and logged inside the operation.
C27_RefreshDeviceNeverRaises ==
  (last.op = "refresh_device" /\ last.err # "none") => last.outcome = "caught"

\* C28: once the coordinator is initialized it stays so, every step (a poll
\* that succeeds or fails, a device refresh) leaves every known device id in
\* the device map and in the snapshot, and no discovery is sent again.
C28_KnownIdsNeverShrink ==
  [][(stack = "client" /\ is_initialized)
       => /\ is_initialized'
          /\ (DOMAIN devices) \subseteq (DOMAIN devices')
          /\ has_data'
          /\ (DOMAIN data) \subseteq (DOMAIN data')
          /\ slot'["timer"].pc \notin {"first", "setup"}
    ]_vars

C28_Witness ==
  /\ stack = "client"
  /\ is_initialized
  /\ last.op = "poll"
  /\ last.outcome = "ok"
  /\ DOMAIN last.fetched = {}
  /\ DOMAIN data = {"T1", "S1"}
  /\ dref.pc = "wait"

\* C29: an async_refresh_device(d) whose fetch returns a device stores that
\* record for d, leaves the other records as they were, publishes the device
\* map as the snapshot and leaves last_update_success true, also after a
\* failed poll; one whose fetch returns no device changes nothing of the
\* coordinator.
C29_DeviceRefreshPublishes ==
  [][(dref.pc = "wait" /\ dref'.pc = "idle")
       => /\ last'.outcome = "ok"
               => /\ dref.resp # {}
                  /\ DOMAIN devices' = (DOMAIN devices) \cup {dref.dev}
                  /\ \A id \in DOMAIN devices' :
                       devices'[id] = IF id = dref.dev THEN TheOne(dref.resp)
                                                       ELSE devices[id]
                  /\ has_data'
                  /\ data' = devices'
                  /\ last_update_success'
          /\ last'.outcome = "no_device"
               => /\ dref.resp = {}
                  /\ data' = data /\ has_data' = has_data
                  /\ devices' = devices
                  /\ last_update_success' = last_update_success
    ]_vars

C29_Witness ==
  /\ last.op = "refresh_device"
  /\ last.outcome = "ok"
  /\ last.stale
  /\ last_update_success
  /\ last.who \in DOMAIN data
  /\ Cardinality(DOMAIN data) = 2

====
